---- MODULE Spec2Model ----
(***************************************************************************)
(* A model of neurodev-mcp: the code_review handler of call_tool with its  *)
(* six analyzers (neurodev_mcp/server.py, analyzers/code_analyzer.py) and  *)
(* the pytest generator (generators/test_generator.py).                    *)
(*                                                                         *)
(* Text is modelled as a tuple of one-character strings, so that the       *)
(* substring, prefix, lower() and split() tests of the code are computed.  *)
(***************************************************************************)
EXTENDS Integers, Sequences, FiniteSets, TLC

VARIABLES
    \* one code_review request (call_tool, name = "code_review")
    code,        \* arguments["code"]
    analyzers,   \* arguments["analyzers"], a list of names
    pc,          \* position of the handler
    cur,         \* index in Order of the analyzer block the handler is at
    results,     \* results["analyzers"]
    summary,     \* results["summary"]
    temp_file,   \* TRUE while the NamedTemporaryFile exists on disk
    report,      \* what the handler returned (NoReport until it returns)
    raised,      \* the exception that left the handler (NoException if none)
    calls,       \* per analyzer, how many times it has been invoked
    inflight,    \* the analyzers whose coroutine has started and not ended
    lastproc,    \* what the subprocess(es) of the last ended analyzer did
    \* one call of CodeAnalyzer.analyze_ast
    ast_code, ast_result, ast_pc,
    \* one call of analyze_function + generate_test_cases
    gen_node, gen_tests, gen_pc,
    \* one call of TestGenerator.generate_tests
    tg_code, tg_out, tg_pc,
    \* two call_tool requests served by one event loop
    reqs,        \* per request, the arguments and the locals of its handler
    tmpdir       \* per file name of the temporary directory, what it holds

review_vars == <<code, analyzers, pc, cur, results, summary, temp_file,
                 report, raised, calls, inflight, lastproc>>
ast_vars == <<ast_code, ast_result, ast_pc>>
gen_vars == <<gen_node, gen_tests, gen_pc>>
tg_vars == <<tg_code, tg_out, tg_pc>>
pair_vars == <<reqs, tmpdir>>
vars == <<review_vars, ast_vars, gen_vars, tg_vars, pair_vars>>

(***************************************************************************)
(* Bounds of the model.                                                    *)
(***************************************************************************)
\* most items a JSON analyzer (pylint, bandit) reports
MaxCount == 1
\* most output lines of a line-oriented analyzer (flake8, mypy)
MaxLines == 1
\* most top-level declarations of an analysed source
MaxDecls == 2
\* most parameters of a function given to the generator
MaxParams == 2
\* most raise statements in a function given to the generator
MaxRaises == 2
\* most methods of a class given to generate_tests
MaxMethods == 2

(***************************************************************************)
(* Text helpers: str.lower, `in`, str.startswith, str.split('(')[0].       *)
(***************************************************************************)
UpperChars == <<"A","B","C","D","E","F","G","H","I","J","K","L","M",
                "N","O","P","Q","R","S","T","U","V","W","X","Y","Z">>
LowerChars == <<"a","b","c","d","e","f","g","h","i","j","k","l","m",
                "n","o","p","q","r","s","t","u","v","w","x","y","z">>

LowerChar(c) ==
    IF \E i \in DOMAIN UpperChars : UpperChars[i] = c
    THEN LowerChars[CHOOSE i \in DOMAIN UpperChars : UpperChars[i] = c]
    ELSE c

\* str.lower()
Lower(s) == [i \in DOMAIN s |-> LowerChar(s[i])]

\* sub in s
Contains(sub, s) ==
    \E k \in 0..(Len(s) - Len(sub)) :
        \A i \in 1..Len(sub) : s[k + i] = sub[i]

\* s.startswith(pre)
StartsWith(s, pre) ==
    /\ Len(pre) <= Len(s)
    /\ \A i \in 1..Len(pre) : s[i] = pre[i]

\* s.split(sep)[0] for a one-character sep
SplitHead(s, sep) ==
    IF \E i \in DOMAIN s : s[i] = sep
    THEN SubSeq(s, 1, (CHOOSE i \in DOMAIN s :
                         /\ s[i] = sep
                         /\ \A j \in 1..(i - 1) : s[j] # sep) - 1)
    ELSE s

\* dict.get(key, default)
Get(d, key, default) == IF key \in DOMAIN d THEN d[key] ELSE default

\* the sequences over S of length at most n
SeqUpTo(S, n) == UNION {[1..k -> S] : k \in 0..n}

\* a list of n items
Items(n) == [i \in 1..n |-> i]

RECURSIVE SumSeq(_)
SumSeq(s) == IF s = <<>> THEN 0 ELSE Head(s) + SumSeq(Tail(s))

RECURSIVE Flatten(_)
Flatten(ss) == IF ss = <<>> THEN <<>> ELSE Head(ss) \o Flatten(Tail(ss))

(***************************************************************************)
(* The syntax tree of a source (what ast.parse builds).  A source text is  *)
(* given by its statements; ast_parse lays them out on lines and sets      *)
(* lineno and end_lineno.  A declaration has a header line, one line of    *)
(* docstring when it has one, its nested statements, and `pad` further     *)
(* lines of simple statements.                                             *)
(***************************************************************************)
\* the text of a declaration: def, async def or class
Decl(type, name, doc, args, body, pad) ==
    [type |-> type, name |-> name, doc |-> doc, args |-> args,
     body |-> body, pad |-> pad]

\* the text of "if ...:" with the statements under it
IfStmt(body) == [type |-> "If", body |-> body]

\* the text of "raise <exc>"; exc = <<>> is a bare raise
RaiseStmt(exc) == [type |-> "Raise", exc |-> exc]

\* the text of "from <module> import <names>"
ImportFromStmt(module, names) ==
    [type |-> "ImportFrom", module |-> module, names |-> names]

\* the text of "from <dots><module> import <names>" with `level` dots;
\* module = <<>> is "from . import <names>", whose node has module None
RelativeImportStmt(level, module, names) ==
    [type |-> "ImportFrom", module |-> module, names |-> names,
     level |-> level]

\* the text of "import <names>"
ImportStmt(names) == [type |-> "Import", names |-> names]

DeclTypes == {"FunctionDef", "AsyncFunctionDef", "ClassDef"}

\* a parameter of a def: its name and the text of its annotation (<<>>: none)
Param(name, annotation) == [name |-> name, annotation |-> annotation]

\* the declaration d with its signature laid out over n lines
WithHeader(d, n) == [header |-> n] @@ d

\* the declaration d with keyword-only parameters after its positional ones
WithKwOnly(d, params) == [kwonlyargs |-> params] @@ d

DocLines(d) == IF d.doc = "none" THEN 0 ELSE 1

\* the lines from "def" to the colon that ends the signature
HeaderLines(d) == IF "header" \in DOMAIN d THEN d.header ELSE 1

\* node.args.kwonlyargs
KwOnlyArgs(d) == IF "kwonlyargs" \in DOMAIN d THEN d.kwonlyargs ELSE <<>>

RECURSIVE StmtSize(_)
RECURSIVE BodySize(_)
\* the number of lines a statement spans
StmtSize(d) ==
    CASE d.type \in DeclTypes ->
            HeaderLines(d) + DocLines(d) + BodySize(d.body) + d.pad
      [] d.type = "If" -> 1 + BodySize(d.body)
      [] OTHER -> 1

BodySize(stmts) ==
    IF stmts = <<>> THEN 0 ELSE StmtSize(Head(stmts)) + BodySize(Tail(stmts))

RECURSIVE ParseStmt(_, _)
RECURSIVE ParseBody(_, _)
\* the node of statement d when its first line is `line`
ParseStmt(d, line) ==
    CASE d.type \in DeclTypes ->
            [type |-> d.type, name |-> d.name, doc |-> d.doc, args |-> d.args,
             kwonlyargs |-> KwOnlyArgs(d),
             lineno |-> line, end_lineno |-> line + StmtSize(d) - 1,
             body_lineno |-> line + HeaderLines(d),
             body |-> ParseBody(d.body, line + HeaderLines(d) + DocLines(d))]
      [] d.type = "If" ->
            [type |-> "If", lineno |-> line,
             end_lineno |-> line + StmtSize(d) - 1,
             body |-> ParseBody(d.body, line + 1)]
      [] OTHER -> [lineno |-> line, end_lineno |-> line] @@ d

ParseBody(stmts, line) ==
    IF stmts = <<>> THEN <<>>
    ELSE <<ParseStmt(Head(stmts), line)>>
         \o ParseBody(Tail(stmts), line + StmtSize(Head(stmts)))

\* ast.parse(code): the outcomes it can have.  A text with a null byte is
\* rejected with SyntaxError or with ValueError, depending on the interpreter;
\* a "deep" text (an expression chained some thousand times, "1+1+...+1")
\* ends the parser with RecursionError.
ast_parse(c) ==
    CASE c.kind = "tree" -> {[exc |-> "none", tree |-> ParseBody(c.body, 1)]}
      [] c.kind = "unparsable" -> {[exc |-> "SyntaxError"]}
      [] c.kind = "nul" -> {[exc |-> "SyntaxError"], [exc |-> "ValueError"]}
      [] c.kind = "deep" -> {[exc |-> "RecursionError"]}

\* len(code.splitlines())
LineCount(c) == IF c.kind = "tree" THEN BodySize(c.body) ELSE c.lines

\* ast.get_docstring(node): "" stands for None and for an empty docstring,
\* which the code does not tell apart ("if not ast.get_docstring(node)")
get_docstring(node) == IF node.doc = "text" THEN "text" ELSE ""

(***************************************************************************)
(* CodeAnalyzer.analyze_ast and its CodeVisitor.                           *)
(***************************************************************************)
\* the parameter count above which too_many_args is reported
ArgsThreshold == 7
\* the line span above which long_function is reported
LengthThreshold == 50

\* the issues visit_FunctionDef appends for the node itself
FunctionIssues(node) ==
    LET func_lines == node.end_lineno - node.lineno
    IN  (IF get_docstring(node) = ""
         THEN <<[type |-> "missing_docstring", line |-> node.lineno,
                 severity |-> "info",
                 message |-> <<"Function", node.name, "missing docstring">>]>>
         ELSE <<>>)
        \o
        (IF Len(node.args) > ArgsThreshold
         THEN <<[type |-> "too_many_args", line |-> node.lineno,
                 severity |-> "warning",
                 message |-> <<"Function", node.name, "has",
                               Len(node.args), "parameters (>7)">>]>>
         ELSE <<>>)
        \o
        (IF func_lines > LengthThreshold
         THEN <<[type |-> "long_function", line |-> node.lineno,
                 severity |-> "warning",
                 message |-> <<"Function", node.name, "is", func_lines,
                               "lines long (>50)">>]>>
         ELSE <<>>)

\* the issues visit_ClassDef appends for the node itself
ClassIssues(node) ==
    IF get_docstring(node) = ""
    THEN <<[type |-> "missing_docstring", line |-> node.lineno,
            severity |-> "info",
            message |-> <<"Class", node.name, "missing docstring">>]>>
    ELSE <<>>

s_None == <<"N", "o", "n", "e">>

\* str(x) for a text or None (<<>>), as an f-string formats it
Str(x) == IF x = <<>> THEN s_None ELSE x

\* the issues visit_ImportFrom appends: one per alias named '*'
ImportFromIssues(node) ==
    LET stars == SelectSeq(node.names, LAMBDA a : a = <<"*">>)
    IN  [i \in 1..Len(stars) |->
            [type |-> "wildcard_import", line |-> node.lineno,
             severity |-> "warning",
             message |-> <<"Wildcard import from", Str(node.module)>>]]

\* NodeVisitor.visit dispatches on the node's class name; a class without a
\* visit_<Class> method (AsyncFunctionDef, Raise, ...) gets generic_visit only
OwnIssues(node) ==
    CASE node.type = "FunctionDef" -> FunctionIssues(node)
      [] node.type = "ClassDef" -> ClassIssues(node)
      [] node.type = "ImportFrom" -> ImportFromIssues(node)
      [] OTHER -> <<>>

\* the statements generic_visit descends into
Children(node) ==
    IF node.type \in DeclTypes \cup {"If"} THEN node.body ELSE <<>>

RECURSIVE VisitNode(_)
RECURSIVE VisitBody(_)
\* a visitor that descends before it reports on the node itself
VisitNodePostOrder(node) == VisitBody(Children(node)) \o OwnIssues(node)

\* CodeVisitor().visit(node): the issues appended, in the order appended
VisitNode(node) == OwnIssues(node) \o VisitBody(Children(node))

VisitBody(nodes) ==
    IF nodes = <<>> THEN <<>>
    ELSE VisitNode(Head(nodes)) \o VisitBody(Tail(nodes))

RECURSIVE CountNodes(_, _)
\* how often the visitor adds to stats[key]: Weight(node) per node visited
CountNodes(nodes, key) ==
    IF nodes = <<>> THEN 0
    ELSE LET node == Head(nodes)
             own == CASE key = "functions" ->
                            IF node.type = "FunctionDef" THEN 1 ELSE 0
                      [] key = "classes" ->
                            IF node.type = "ClassDef" THEN 1 ELSE 0
                      [] key = "imports" ->
                            IF node.type \in {"Import", "ImportFrom"}
                            THEN Len(node.names) ELSE 0
         IN  own + CountNodes(Children(node), key)
                 + CountNodes(Tail(nodes), key)

\* analyze_ast(code) when ast.parse ends as `parsed`: the dictionary it
\* returns, or [raise |-> e] when exception e leaves it
analyze_ast(c, parsed) ==
    LET stats0 == [functions |-> 0, classes |-> 0, lines |-> LineCount(c),
                   imports |-> 0]
    IN  CASE parsed.exc = "SyntaxError" ->
                [tool |-> "ast", error |-> "Syntax error", stats |-> stats0]
          [] parsed.exc \in {"ValueError", "RecursionError"} ->
                [raise |-> parsed.exc]
          [] parsed.exc = "none" ->
                LET issues == VisitBody(parsed.tree)
                IN  [tool |-> "ast", issues |-> issues,
                     stats |-> [functions |-> CountNodes(parsed.tree, "functions"),
                                classes |-> CountNodes(parsed.tree, "classes"),
                                lines |-> LineCount(c),
                                imports |-> CountNodes(parsed.tree, "imports")],
                     count |-> Len(issues)]

(***************************************************************************)
(* What a subprocess.run of an analyzer can do: raise TimeoutExpired,      *)
(* raise FileNotFoundError, raise another exception, or complete with some *)
(* text on stdout.                                                         *)
(***************************************************************************)
ProcFailures == {[k |-> "timeout"], [k |-> "notfound"], [k |-> "raise"]}

\* stdout of a tool asked for JSON: nothing, text that is not JSON, the JSON
\* null, or a JSON list or object of n items
JsonOutputs ==
    {[k |-> "out", fmt |-> f, n |-> 0] : f \in {"empty", "garbage", "null"}}
    \cup {[k |-> "out", fmt |-> f, n |-> i] :
             f \in {"list", "dict"}, i \in 0..MaxCount}

\* a line of stdout of a line-oriented tool: whether it is empty, and how
\* many ':' it has ("file:line:col: message" has three)
LineKinds ==
    {[empty |-> TRUE, colons |-> 0], [empty |-> FALSE, colons |-> 0],
     [empty |-> FALSE, colons |-> 1], [empty |-> FALSE, colons |-> 3]}

\* result.stdout.strip().split('\n'): at least one line, possibly empty
LineOutputs ==
    {[k |-> "out", lines |-> ls] :
        ls \in SeqUpTo(LineKinds, MaxLines) \ {<<>>}}

\* radon runs two subprocesses; the second one only if the first returned
RadonProcs ==
    {[cc |-> f, mi |-> [k |-> "notrun"]] : f \in ProcFailures}
    \cup {[cc |-> [k |-> "out", fmt |-> a, n |-> 0], mi |-> m] :
             a \in {"empty", "garbage", "dict"},
             m \in ProcFailures
                   \cup {[k |-> "out", fmt |-> b, n |-> 0] :
                            b \in {"empty", "garbage", "dict"}}}

Procs(p) ==
    CASE p \in {"pylint", "bandit"} -> ProcFailures \cup JsonOutputs
      [] p \in {"flake8", "mypy"} -> ProcFailures \cup LineOutputs
      [] p = "radon" -> RadonProcs

\* the except clauses shared by the run_* methods
ErrorEntry(tool, proc) ==
    CASE proc.k = "timeout" -> [tool |-> tool, error |-> "Timeout"]
      [] proc.k = "notfound" -> [tool |-> tool, error |-> "Not installed"]
      [] proc.k = "raise" -> [tool |-> tool, error |-> "str(e)"]

\* CodeAnalyzer.run_pylint: json.loads fails on text that is not JSON, and
\* len(messages) on null; both are caught by "except Exception"
run_pylint(proc) ==
    IF proc.k # "out" THEN ErrorEntry("pylint", proc)
    ELSE CASE proc.fmt = "empty" ->
                 [tool |-> "pylint", issues |-> <<>>, count |-> 0]
           [] proc.fmt = "garbage" ->
                 [tool |-> "pylint", error |-> "JSONDecodeError"]
           [] proc.fmt = "null" ->
                 [tool |-> "pylint", error |-> "TypeError"]
           [] proc.fmt \in {"list", "dict"} ->
                 [tool |-> "pylint", issues |-> Items(proc.n),
                  count |-> Len(Items(proc.n))]

\* len(line.split(':', 3))
SplitParts(line) == (IF line.colons > 3 THEN 3 ELSE line.colons) + 1

\* CodeAnalyzer.run_flake8: every non-empty line with at least 4 parts
run_flake8(proc) ==
    IF proc.k # "out" THEN ErrorEntry("flake8", proc)
    ELSE LET issues == SelectSeq(proc.lines,
                          LAMBDA l : ~l.empty /\ SplitParts(l) >= 4)
         IN  [tool |-> "flake8", issues |-> issues, count |-> Len(issues)]

\* CodeAnalyzer.run_mypy: every non-empty line that has a ':'
run_mypy(proc) ==
    IF proc.k # "out" THEN ErrorEntry("mypy", proc)
    ELSE LET issues == SelectSeq(proc.lines,
                          LAMBDA l : ~l.empty /\ l.colons >= 1)
         IN  [tool |-> "mypy", issues |-> issues, count |-> Len(issues)]

\* CodeAnalyzer.run_bandit: data.get fails on a JSON list or null
run_bandit(proc) ==
    IF proc.k # "out" THEN ErrorEntry("bandit", proc)
    ELSE CASE proc.fmt = "empty" ->
                 [tool |-> "bandit", issues |-> <<>>, count |-> 0]
           [] proc.fmt = "garbage" ->
                 [tool |-> "bandit", error |-> "JSONDecodeError"]
           [] proc.fmt \in {"null", "list"} ->
                 [tool |-> "bandit", error |-> "AttributeError"]
           [] proc.fmt = "dict" ->
                 [tool |-> "bandit", issues |-> Items(proc.n),
                  count |-> Len(Items(proc.n)), metrics |-> "metrics"]

\* CodeAnalyzer.run_radon: the result has no "count"
run_radon(proc) ==
    CASE proc.cc.k # "out" -> ErrorEntry("radon", proc.cc)
      [] proc.mi.k # "out" -> ErrorEntry("radon", proc.mi)
      [] "garbage" \in {proc.cc.fmt, proc.mi.fmt} ->
            [tool |-> "radon", error |-> "JSONDecodeError"]
      [] OTHER ->
            [tool |-> "radon", complexity |-> proc.cc.fmt,
             maintainability |-> proc.mi.fmt]

(***************************************************************************)
(* call_tool, name = "code_review" (server.py, lines 145-199).             *)
(***************************************************************************)
\* the order of the "if <name> in analyzers" blocks
Order == <<"pylint", "flake8", "mypy", "bandit", "radon", "ast">>

Range(s) == {s[i] : i \in DOMAIN s}

\* the sub-lists of Order, in the order of Order
RECURSIVE SubLists(_)
SubLists(s) ==
    IF s = <<>> THEN {<<>>}
    ELSE LET rest == SubLists(Tail(s))
         IN  rest \cup {<<Head(s)>> \o r : r \in rest}

\* a name no block of the handler asks for
UnknownName == "eslint"

\* the values of arguments["analyzers"] the model tries: the default of
\* arguments.get (the whole of Order), its sub-lists, every list of two
\* names in either order, a name listed twice included, and lists with an
\* unknown name
RequestLists ==
    SubLists(Order) \cup {<<a, b>> : a \in Range(Order), b \in Range(Order)}
    \cup {<<UnknownName>>, <<UnknownName, "ast">>, <<"pylint", UnknownName>>,
          <<"radon", UnknownName, "flake8">>}

\* sample sources of a request
SrcDocumented ==
    [kind |-> "tree",
     body |-> <<Decl("FunctionDef", <<"f">>, "text", <<>>, <<>>, 1)>>]

SrcUndocumented ==
    [kind |-> "tree",
     body |-> <<Decl("ClassDef", <<"C">>, "none", <<>>,
                     <<Decl("FunctionDef", <<"m">>, "none",
                            <<Param(<<"s", "e", "l", "f">>, <<>>)>>,
                            <<>>, 1)>>, 0)>>]

\* "unencodable" is a text the file's encoding cannot write (a lone
\* surrogate, which a JSON string can carry)
ReviewCodes ==
    {[kind |-> "empty"], [kind |-> "unparsable", lines |-> 1],
     [kind |-> "nul", lines |-> 1], [kind |-> "unencodable", lines |-> 1],
     SrcDocumented, SrcUndocumented}

NoReport == [type |-> "none"]
NoException == "none"

ZeroSummary == [total_issues |-> 0, critical |-> 0, warning |-> 0, info |-> 0]

\* results["analyzers"][name], when the key is there
HasEntry(res, name) == \E i \in DOMAIN res : res[i].key = name
Entry(res, name) == res[CHOOSE i \in DOMAIN res : res[i].key = name].value

\* Tally with the mypy block written like the radon block: nothing is added
TallyForgetsMypy(p, entry, sum) ==
    CASE p \in {"pylint", "flake8", "ast"} ->
            [sum EXCEPT !.total_issues = @ + Get(entry, "count", 0)]
      [] p = "bandit" ->
            [sum EXCEPT !.total_issues = @ + Get(entry, "count", 0),
                        !.critical = @ + Get(entry, "count", 0)]
      [] OTHER -> sum

\* the summary after the block of analyzer p has stored `entry`
Tally(p, entry, sum) ==
    CASE p \in {"pylint", "flake8", "mypy", "ast"} ->
            [sum EXCEPT !.total_issues = @ + Get(entry, "count", 0)]
      [] p = "bandit" ->
            LET security_count == Get(entry, "count", 0)
            IN  [sum EXCEPT !.total_issues = @ + security_count,
                            !.critical = @ + security_count]
      [] p = "radon" -> sum

\* a step of the review leaves the other operations' variables alone
ReviewOnly == UNCHANGED <<ast_vars, gen_vars, tg_vars, pair_vars>>

ReviewInit ==
    /\ code \in ReviewCodes
    /\ analyzers \in RequestLists
    /\ pc = "entry"
    /\ cur = 1
    /\ results = <<>>
    /\ summary = ZeroSummary
    /\ temp_file = FALSE
    /\ report = NoReport
    /\ raised = NoException
    /\ calls = [p \in Range(Order) |-> 0]
    /\ inflight = {}
    /\ lastproc = [k |-> "none"]

\* lines 149-150: "if not code: return ..."
Entry_NoCode ==
    /\ pc = "entry"
    /\ code.kind = "empty"
    /\ report' = [type |-> "text", text |-> [message |-> "Error: No code provided"]]
    /\ pc' = "done"
    /\ UNCHANGED <<code, analyzers, cur, results, summary, temp_file, raised,
                   calls, inflight, lastproc>>
    /\ ReviewOnly

\* lines 153-166: the temporary file is written, the results are initialised
MakeTemp ==
    /\ pc = "entry"
    /\ code.kind \notin {"empty", "unencodable"}
    /\ temp_file' = TRUE
    /\ results' = <<>>
    /\ summary' = ZeroSummary
    /\ cur' = 1
    /\ pc' = "check"
    /\ UNCHANGED <<code, analyzers, report, raised, calls, inflight, lastproc>>
    /\ ReviewOnly

\* lines 153-154: NamedTemporaryFile(delete=False) has created the file,
\* f.write(code) raises; the statement is outside the try block, so the
\* exception leaves the handler without passing the finally clause
MakeTempRaises ==
    /\ pc = "entry"
    /\ code.kind = "unencodable"
    /\ temp_file' = TRUE
    /\ raised' = "UnicodeEncodeError"
    /\ pc' = "done"
    /\ UNCHANGED <<code, analyzers, cur, results, summary, report, calls,
                   inflight, lastproc>>
    /\ ReviewOnly

\* a block without its "if": the analyzer is called whatever the list holds
SkipInvokes ==
    /\ pc = "check"
    /\ cur <= Len(Order)
    /\ Order[cur] \notin Range(analyzers)
    /\ calls' = [calls EXCEPT ![Order[cur]] = @ + 1]
    /\ inflight' = inflight \cup {Order[cur]}
    /\ pc' = "run"
    /\ UNCHANGED <<code, analyzers, cur, results, summary, temp_file, report,
                   raised, lastproc>>
    /\ ReviewOnly

\* "if <name> in analyzers": the block is skipped
Skip ==
    /\ pc = "check"
    /\ cur <= Len(Order)
    /\ Order[cur] \notin Range(analyzers)
    /\ cur' = cur + 1
    /\ UNCHANGED <<code, analyzers, pc, results, summary, temp_file, report,
                   raised, calls, inflight, lastproc>>
    /\ ReviewOnly

\* "if <name> in analyzers": the analyzer's coroutine is called and awaited
Invoke ==
    /\ pc = "check"
    /\ cur <= Len(Order)
    /\ Order[cur] \in Range(analyzers)
    /\ calls' = [calls EXCEPT ![Order[cur]] = @ + 1]
    /\ inflight' = inflight \cup {Order[cur]}
    /\ pc' = "run"
    /\ UNCHANGED <<code, analyzers, cur, results, summary, temp_file, report,
                   raised, lastproc>>
    /\ ReviewOnly

\* Store that gives up the remaining blocks when the entry is an error record
StoreStopsOnError(p, entry, proc) ==
    /\ results' = Append(results, [key |-> p, value |-> entry])
    /\ summary' = Tally(p, entry, summary)
    /\ inflight' = inflight \ {p}
    /\ lastproc' = proc
    /\ cur' = IF "error" \in DOMAIN entry THEN Len(Order) + 1 ELSE cur + 1
    /\ pc' = "check"
    /\ UNCHANGED <<code, analyzers, temp_file, report, raised, calls>>
    /\ ReviewOnly

\* Store that calls the analyzer a second time when its first entry is an
\* error record
StoreRetries(p, entry, proc) ==
    /\ results' = IF "error" \in DOMAIN entry /\ calls[p] < 2
                  THEN results
                  ELSE Append(results, [key |-> p, value |-> entry])
    /\ summary' = Tally(p, entry, summary)
    /\ inflight' = inflight \ {p}
    /\ lastproc' = proc
    /\ cur' = IF "error" \in DOMAIN entry /\ calls[p] < 2 THEN cur ELSE cur + 1
    /\ pc' = "check"
    /\ UNCHANGED <<code, analyzers, temp_file, report, raised, calls>>
    /\ ReviewOnly

\* the awaited coroutine of p returned `entry`: it is stored and tallied
Store(p, entry, proc) ==
    /\ results' = Append(results, [key |-> p, value |-> entry])
    /\ summary' = Tally(p, entry, summary)
    /\ inflight' = inflight \ {p}
    /\ lastproc' = proc
    /\ cur' = cur + 1
    /\ pc' = "check"
    /\ UNCHANGED <<code, analyzers, temp_file, report, raised, calls>>
    /\ ReviewOnly

FinishPylint ==
    /\ pc = "run" /\ Order[cur] = "pylint"
    /\ \E proc \in Procs("pylint") : Store("pylint", run_pylint(proc), proc)

FinishFlake8 ==
    /\ pc = "run" /\ Order[cur] = "flake8"
    /\ \E proc \in Procs("flake8") : Store("flake8", run_flake8(proc), proc)

FinishMypy ==
    /\ pc = "run" /\ Order[cur] = "mypy"
    /\ \E proc \in Procs("mypy") : Store("mypy", run_mypy(proc), proc)

FinishBandit ==
    /\ pc = "run" /\ Order[cur] = "bandit"
    /\ \E proc \in Procs("bandit") : Store("bandit", run_bandit(proc), proc)

FinishRadon ==
    /\ pc = "run" /\ Order[cur] = "radon"
    /\ \E proc \in Procs("radon") : Store("radon", run_radon(proc), proc)

\* analyze_ast returned a dictionary
FinishAst ==
    /\ pc = "run" /\ Order[cur] = "ast"
    /\ \E parsed \in ast_parse(code) :
          /\ "raise" \notin DOMAIN analyze_ast(code, parsed)
          /\ Store("ast", analyze_ast(code, parsed), [k |-> "parse", exc |-> parsed.exc])

\* an exception left analyze_ast: it leaves the try block, too
RaiseAst ==
    /\ pc = "run" /\ Order[cur] = "ast"
    /\ \E parsed \in ast_parse(code) :
          /\ "raise" \in DOMAIN analyze_ast(code, parsed)
          /\ raised' = analyze_ast(code, parsed).raise
    /\ inflight' = inflight \ {"ast"}
    /\ pc' = "finally"
    /\ UNCHANGED <<code, analyzers, cur, results, summary, temp_file, report,
                   calls, lastproc>>
    /\ ReviewOnly

\* Return placed inside the chain of blocks: it can run before the last one
ReturnEarly ==
    /\ pc = "check"
    /\ cur > 1
    /\ report' = [type |-> "text",
                  text |-> [summary |-> summary, analyzers |-> results]]
    /\ pc' = "finally"
    /\ UNCHANGED <<code, analyzers, cur, results, summary, temp_file, raised,
                   calls, inflight, lastproc>>
    /\ ReviewOnly

\* lines 194-197: "return [TextContent(type="text", text=json.dumps(results))]"
Return ==
    /\ pc = "check"
    /\ cur = Len(Order) + 1
    /\ report' = [type |-> "text",
                  text |-> [summary |-> summary, analyzers |-> results]]
    /\ pc' = "finally"
    /\ UNCHANGED <<code, analyzers, cur, results, summary, temp_file, raised,
                   calls, inflight, lastproc>>
    /\ ReviewOnly

\* lines 198-199: "finally: os.unlink(temp_file)"
Finally ==
    /\ pc = "finally"
    /\ temp_file' = FALSE
    /\ pc' = "done"
    /\ UNCHANGED <<code, analyzers, cur, results, summary, report, raised,
                   calls, inflight, lastproc>>
    /\ ReviewOnly

ReviewNext ==
    \/ Entry_NoCode
    \/ MakeTemp
    \/ MakeTempRaises
    \/ Skip
    \/ Invoke
    \/ FinishPylint
    \/ FinishFlake8
    \/ FinishMypy
    \/ FinishBandit
    \/ FinishRadon
    \/ FinishAst
    \/ RaiseAst
    \/ Return
    \/ Finally

\* the variables of the other operations, which a review leaves alone
IdleAst == ast_code = [kind |-> "empty"] /\ ast_result = NoReport /\ ast_pc = "off"
IdleGen == gen_node = <<>> /\ gen_tests = <<>> /\ gen_pc = "off"
IdleTg == tg_code = [kind |-> "empty"] /\ tg_out = <<>> /\ tg_pc = "off"
IdlePair == reqs = <<>> /\ tmpdir = <<>>
IdleReview ==
    /\ code = [kind |-> "empty"]
    /\ analyzers = <<>>
    /\ pc = "off"
    /\ cur = 1
    /\ results = <<>>
    /\ summary = ZeroSummary
    /\ temp_file = FALSE
    /\ report = NoReport
    /\ raised = NoException
    /\ calls = [p \in Range(Order) |-> 0]
    /\ inflight = {}
    /\ lastproc = [k |-> "none"]

Init == ReviewInit /\ IdleAst /\ IdleGen /\ IdleTg /\ IdlePair

Next == ReviewNext

\* one code_review request
Spec == Init /\ [][Next]_vars

(***************************************************************************)
(* One call of CodeAnalyzer.analyze_ast on a source drawn from AstSources. *)
(***************************************************************************)
Docs == {"none", "blank", "text"}

\* the name the sample declarations of each type carry
SampleName(t) ==
    CASE t = "FunctionDef" -> <<"f">>
      [] t = "AsyncFunctionDef" -> <<"g">>
      [] t = "ClassDef" -> <<"C">>

\* what a sample declaration holds: nothing, or one function or method
NestedBodies ==
    {<<>>}
    \cup {<<Decl(t, <<"m">>, doc, <<>>, <<>>, 1)>> :
             t \in {"FunctionDef", "AsyncFunctionDef"}, doc \in {"none", "text"}}

TopDecls ==
    {Decl(t, SampleName(t), doc, <<>>, body, 1) :
        t \in DeclTypes, doc \in Docs, body \in NestedBodies}

\* n positional parameters without annotation
ManyParams(n) == [i \in 1..n |-> Param(<<"p">>, <<>>)]

\* functions with a parameter count at and around the threshold, and one
\* whose parameters past the fourth are keyword-only: def f(p, .., *, p, ..)
ParamDecls ==
    {Decl(t, SampleName(t), "text", ManyParams(n), <<>>, 1) :
        t \in {"FunctionDef", "AsyncFunctionDef"},
        n \in (ArgsThreshold - 1)..(ArgsThreshold + 1)}
    \cup {WithKwOnly(Decl("FunctionDef", SampleName("FunctionDef"), "text",
                          ManyParams(4), <<>>, 1),
                     ManyParams(4))}

\* functions with a body at and around the length threshold, their
\* signature on one line or on two
LongDecls ==
    {WithHeader(Decl(t, SampleName(t), doc, <<>>, <<>>, pad), h) :
        t \in {"FunctionDef", "AsyncFunctionDef"}, doc \in {"none", "text"},
        pad \in (LengthThreshold - 2)..(LengthThreshold + 1), h \in 1..2}

s_os == <<"o", "s">>
s_sys == <<"s", "y", "s">>
s_pkg == <<"p", "k", "g">>
s_star == <<"*">>

\* import statements: from os import *, from os import sys, os; import os;
\* from . import *, from ..pkg import *, and a wildcard import in a function
ImportStmts ==
    {ImportFromStmt(s_os, <<s_star>>),
     ImportFromStmt(s_os, <<s_sys, s_os>>),
     ImportStmt(<<s_os>>),
     RelativeImportStmt(1, <<>>, <<s_star>>),
     RelativeImportStmt(2, s_pkg, <<s_star>>),
     Decl("FunctionDef", SampleName("FunctionDef"), "text", <<>>,
          <<ImportFromStmt(s_sys, <<s_star>>)>>, 0)}

AstSources ==
    {[kind |-> "tree", body |-> b] : b \in SeqUpTo(TopDecls, MaxDecls)}
    \cup {[kind |-> "tree", body |-> <<d>>] : d \in ParamDecls \cup LongDecls}
    \cup {[kind |-> "tree", body |-> b] :
              b \in SeqUpTo(ImportStmts, MaxDecls) \ {<<>>}}
    \cup {[kind |-> "unparsable", lines |-> 1], [kind |-> "nul", lines |-> 1],
          [kind |-> "deep", lines |-> 1]}

AstInit ==
    /\ ast_code \in AstSources
    /\ ast_result = NoReport
    /\ ast_pc = "call"

\* analyze_ast returns its dictionary
AnalyzeAst ==
    /\ ast_pc = "call"
    /\ \E parsed \in ast_parse(ast_code) :
          /\ "raise" \notin DOMAIN analyze_ast(ast_code, parsed)
          /\ ast_result' = analyze_ast(ast_code, parsed)
    /\ ast_pc' = "done"
    /\ UNCHANGED <<ast_code, review_vars, gen_vars, tg_vars, pair_vars>>

\* an exception leaves analyze_ast
AnalyzeAstRaises ==
    /\ ast_pc = "call"
    /\ \E parsed \in ast_parse(ast_code) :
          /\ "raise" \in DOMAIN analyze_ast(ast_code, parsed)
          /\ ast_result' = analyze_ast(ast_code, parsed)
    /\ ast_pc' = "raised"
    /\ UNCHANGED <<ast_code, review_vars, gen_vars, tg_vars, pair_vars>>

InitAst == AstInit /\ IdleReview /\ IdleGen /\ IdleTg /\ IdlePair

NextAst == AnalyzeAst \/ AnalyzeAstRaises

\* one call of analyze_ast
SpecAst == InitAst /\ [][NextAst]_vars

(***************************************************************************)
(* TestGenerator.analyze_function and TestGenerator.generate_test_cases.   *)
(***************************************************************************)
RECURSIVE CollectRaises(_)
\* RaiseVisitor: generic_visit descends into every statement, nested
\* definitions included; visit_Raise appends ast.unparse(exc).split('(')[0]
\* for a raise that has an expression
CollectRaises(nodes) ==
    IF nodes = <<>> THEN <<>>
    ELSE LET node == Head(nodes)
         IN  (IF node.type = "Raise"
              THEN (IF node.exc # <<>>
                    THEN <<SplitHead(node.exc, "(")>> ELSE <<>>)
              ELSE CollectRaises(Children(node)))
             \o CollectRaises(Tail(nodes))

\* analyze_function(node); "returns" and "calls" are left out, they are
\* not read by generate_test_cases
analyze_function(node) ==
    [name |-> node.name,
     args |-> [i \in DOMAIN node.args |->
                  [name |-> node.args[i].name,
                   annotation |-> node.args[i].annotation]],
     docstring |-> get_docstring(node),
     raises |-> CollectRaises(Children(node))]

s_int == <<"i", "n", "t">>
s_num == <<"n", "u", "m">>
s_str == <<"s", "t", "r">>
s_name == <<"n", "a", "m", "e">>
s_text == <<"t", "e", "x", "t">>
s_bool == <<"b", "o", "o", "l">>
s_is == <<"i", "s", "_">>
s_has == <<"h", "a", "s", "_">>
s_list == <<"l", "i", "s", "t">>
s_dict == <<"d", "i", "c", "t">>
s_path == <<"p", "a", "t", "h">>
s_file == <<"f", "i", "l", "e">>
s_test == <<"t", "e", "s", "t", "_">>
s_basic == <<"_", "b", "a", "s", "i", "c">>
s_edge == <<"_", "e", "d", "g", "e", "_", "c", "a", "s", "e", "_", "z", "e", "r", "o">>
s_raises == <<"_", "r", "a", "i", "s", "e", "s", "_">>
s_type_validation == <<"_", "t", "y", "p", "e", "_", "v", "a", "l", "i", "d", "a", "t", "i", "o", "n">>

\* TestValue with the rule "the name is n" added to the integer rule
TestValueNamedN(arg) ==
    LET arg_name == arg.name
        annotation_lower == Lower(arg.annotation)
    IN  CASE Contains(s_int, annotation_lower)
             \/ Contains(s_num, Lower(arg_name))
             \/ arg_name = <<"n">> -> "1"
          [] Contains(s_str, annotation_lower)
             \/ Contains(s_name, Lower(arg_name))
             \/ Contains(s_text, Lower(arg_name)) -> "\"test_string\""
          [] Contains(s_bool, annotation_lower)
             \/ StartsWith(arg_name, s_is)
             \/ StartsWith(arg_name, s_has) -> "True"
          [] Contains(s_list, annotation_lower) -> "[1, 2, 3]"
          [] Contains(s_dict, annotation_lower) -> "{\"key\": \"value\"}"
          [] Contains(s_path, Lower(arg_name))
             \/ Contains(s_file, Lower(arg_name)) -> "\"/tmp/test_file\""
          [] OTHER -> "None"

\* TestValue with the boolean rule tried before the string rule
TestValueBoolFirst(arg) ==
    LET arg_name == arg.name
        annotation_lower == Lower(arg.annotation)
    IN  CASE Contains(s_int, annotation_lower)
             \/ Contains(s_num, Lower(arg_name)) -> "1"
          [] Contains(s_bool, annotation_lower)
             \/ StartsWith(arg_name, s_is)
             \/ StartsWith(arg_name, s_has) -> "True"
          [] Contains(s_str, annotation_lower)
             \/ Contains(s_name, Lower(arg_name))
             \/ Contains(s_text, Lower(arg_name)) -> "\"test_string\""
          [] Contains(s_list, annotation_lower) -> "[1, 2, 3]"
          [] Contains(s_dict, annotation_lower) -> "{\"key\": \"value\"}"
          [] Contains(s_path, Lower(arg_name))
             \/ Contains(s_file, Lower(arg_name)) -> "\"/tmp/test_file\""
          [] OTHER -> "None"

\* lines 53-72: the value of one parameter in the basic test
TestValue(arg) ==
    LET arg_name == arg.name
        annotation_lower == Lower(arg.annotation)
    IN  CASE Contains(s_int, annotation_lower)
             \/ Contains(s_num, Lower(arg_name)) -> "1"
          [] Contains(s_str, annotation_lower)
             \/ Contains(s_name, Lower(arg_name))
             \/ Contains(s_text, Lower(arg_name)) -> "\"test_string\""
          [] Contains(s_bool, annotation_lower)
             \/ StartsWith(arg_name, s_is)
             \/ StartsWith(arg_name, s_has) -> "True"
          [] Contains(s_list, annotation_lower) -> "[1, 2, 3]"
          [] Contains(s_dict, annotation_lower) -> "{\"key\": \"value\"}"
          [] Contains(s_path, Lower(arg_name))
             \/ Contains(s_file, Lower(arg_name)) -> "\"/tmp/test_file\""
          [] OTHER -> "None"

\* "int" in (arg.get("annotation") or "").lower()
IntAnnotated(arg) == Contains(s_int, Lower(arg.annotation))

\* list.index: the first position of x in s
Index(s, x) == CHOOSE i \in DOMAIN s : s[i] = x /\ \A j \in 1..(i - 1) : s[j] # x

BlankLine == [ind |-> 0, t |-> "blank"]

\* the lines of one generated test: the text of the f-string split at '\n'.
\* `ind` counts the indentation in units of four spaces
TestLines(kind, test_name, target, body) ==
    <<BlankLine,
      [ind |-> 0, t |-> "def", kind |-> kind, name |-> test_name],
      [ind |-> 1, t |-> "docstring", kind |-> kind, target |-> target]>>
    \o body \o <<BlankLine>>

\* lines 76-81 and 92-97
ResultTest(kind, suffix, name, call_args) ==
    TestLines(kind, s_test \o name \o suffix, name,
              <<[ind |-> 1, t |-> "call", target |-> name, args |-> call_args],
                [ind |-> 1, t |-> "assert_not_none"]>>)

\* lines 102-107
RaisesTest(name, exc) ==
    TestLines("exceptionCheck", s_test \o name \o s_raises \o Lower(exc), name,
              <<[ind |-> 1, t |-> "with_raises", exc |-> <<exc>>],
                [ind |-> 2, t |-> "call", target |-> name,
                 args |-> <<"invalid_input">>]>>)

\* lines 111-116: the argument is the text of a conditional expression
\* that holds repr(args)
TypeValidationTest(name, args) ==
    TestLines("typeValidation", s_test \o name \o s_type_validation, name,
              <<[ind |-> 1, t |-> "with_raises",
                 exc |-> <<"TypeError", "ValueError", "AttributeError">>],
                [ind |-> 2, t |-> "call_wrong_type", target |-> name,
                 args_repr |-> args]>>)

\* what the conditional expression of line 115 gives when the generated
\* test runs: 123 when an annotation of the list holds "str", else the text
WrongTypeValue(args_repr) ==
    IF \E i \in DOMAIN args_repr :
          Contains(s_str, Lower(args_repr[i].annotation))
    THEN "123"
    ELSE "\"wrong_type\""

\* generate_test_cases with the type validation test appended before the
\* tests of the raised exceptions
generate_test_casesTypeFirst(func_info) ==
    LET name == func_info.name
        args == func_info.args
        test_args == [i \in DOMAIN args |-> TestValue(args[i])]
        edge_args == [i \in DOMAIN args |->
                         IF IntAnnotated(args[i]) THEN "0"
                         ELSE test_args[Index(args, args[i])]]
    IN  <<ResultTest("basic", s_basic, name, test_args)>>
        \o (IF \E i \in DOMAIN args : IntAnnotated(args[i])
            THEN <<ResultTest("edgeCase", s_edge, name, edge_args)>>
            ELSE <<>>)
        \o (IF \E i \in DOMAIN args : args[i].annotation # <<>>
            THEN <<TypeValidationTest(name, args)>>
            ELSE <<>>)
        \o [i \in DOMAIN func_info.raises |->
               RaisesTest(name, func_info.raises[i])]

\* generate_test_cases(func_info): the list of test texts
generate_test_cases(func_info) ==
    LET name == func_info.name
        args == func_info.args
        test_args == [i \in DOMAIN args |-> TestValue(args[i])]
        edge_args == [i \in DOMAIN args |->
                         IF IntAnnotated(args[i]) THEN "0"
                         ELSE test_args[Index(args, args[i])]]
    IN  <<ResultTest("basic", s_basic, name, test_args)>>
        \o (IF \E i \in DOMAIN args : IntAnnotated(args[i])
            THEN <<ResultTest("edgeCase", s_edge, name, edge_args)>>
            ELSE <<>>)
        \o [i \in DOMAIN func_info.raises |->
               RaisesTest(name, func_info.raises[i])]
        \o (IF \E i \in DOMAIN args : args[i].annotation # <<>>
            THEN <<TypeValidationTest(name, args)>>
            ELSE <<>>)

(***************************************************************************)
(* One call of analyze_function and generate_test_cases on a function      *)
(* drawn from GenFunctions.                                                *)
(***************************************************************************)
ParamNames == {<<"n">>, s_num, <<"a">>, s_text, <<"i", "s", "_", "o", "k">>, s_path}

Annotations == {<<>>, s_int, s_str, <<"f", "l", "o", "a", "t">>, s_bool, <<"L", "i", "s", "t", "[", "i", "n", "t", "]">>}

\* parameter lists with pairwise different names
ParamLists ==
    {ps \in SeqUpTo({Param(nm, an) : nm \in ParamNames, an \in Annotations},
                    MaxParams) :
        \A i, j \in DOMAIN ps : i # j => ps[i].name # ps[j].name}

e_ValueError == <<"V", "a", "l", "u", "e", "E", "r", "r", "o", "r", "(", "'", "x", "'", ")">>
e_TypeError == <<"T", "y", "p", "e", "E", "r", "r", "o", "r">>
e_KeyError == <<"K", "e", "y", "E", "r", "r", "o", "r", "(", "k", ")">>

e_Dotted == <<"e", "r", "r", "o", "r", "s", ".", "F", "a", "i", "l", "u", "r", "e", "(", "'", "x", "'", ")">>

\* statements with a raise in them: directly, under an if, in a nested def
RaisingStmts ==
    {RaiseStmt(e_ValueError), RaiseStmt(e_TypeError), RaiseStmt(<<>>),
     RaiseStmt(e_Dotted),
     IfStmt(<<RaiseStmt(e_ValueError)>>),
     Decl("FunctionDef", <<"i", "n", "n", "e", "r">>, "none", <<>>, <<RaiseStmt(e_KeyError)>>, 0)}

s_divide == <<"d", "i", "v", "i", "d", "e">>
s_a == <<"a">>
s_b == <<"b">>

GenFunctions ==
    {Decl("FunctionDef", s_divide, "text", ps, <<>>, 1) : ps \in ParamLists}
    \cup {Decl("FunctionDef", s_divide, "text", ps, body, 1) :
             ps \in {<<>>, <<Param(s_a, s_int)>>,
                     <<Param(s_a, <<"f", "l", "o", "a", "t">>), Param(s_b, <<"f", "l", "o", "a", "t">>)>>},
             body \in SeqUpTo(RaisingStmts, MaxRaises)}

GenInit ==
    /\ gen_node \in GenFunctions
    /\ gen_tests = <<>>
    /\ gen_pc = "call"

\* func_info = analyze_function(func); generate_test_cases(func_info)
Generate ==
    /\ gen_pc = "call"
    /\ gen_tests' = generate_test_cases(analyze_function(ParseStmt(gen_node, 1)))
    /\ gen_pc' = "done"
    /\ UNCHANGED <<gen_node, review_vars, ast_vars, tg_vars, pair_vars>>

InitGen == GenInit /\ IdleReview /\ IdleAst /\ IdleTg /\ IdlePair

NextGen == Generate

\* one call of generate_test_cases
SpecGen == InitGen /\ [][NextGen]_vars

(***************************************************************************)
(* One call of generate_test_cases on a function of one parameter, the     *)
(* parameter's name and annotation drawn from texts that meet the rules of *)
(* the value cascade singly and several at a time.                         *)
(***************************************************************************)
ValueNames ==
    {<<"n">>,
     <<"n", "u", "m">>,
     <<"a">>,
     <<"t", "e", "x", "t">>,
     <<"i", "s", "_", "o", "k">>,
     <<"p", "a", "t", "h">>,
     <<"p", "o", "i", "n", "t">>,
     <<"n", "a", "m", "e">>,
     <<"h", "a", "s", "_", "x">>,
     <<"f", "i", "l", "e">>,
     <<"i", "s", "_", "n", "a", "m", "e">>,
     <<"N", "u", "m", "b", "e", "r">>,
     <<"I", "s", "_", "o", "k">>,
     <<"f", "i", "l", "e", "n", "a", "m", "e">>}

ValueAnnotations ==
    {<<>>,
     <<"i", "n", "t">>,
     <<"s", "t", "r">>,
     <<"f", "l", "o", "a", "t">>,
     <<"b", "o", "o", "l">>,
     <<"L", "i", "s", "t", "[", "i", "n", "t", "]">>,
     <<"l", "i", "s", "t">>,
     <<"d", "i", "c", "t">>,
     <<"D", "i", "c", "t", "[", "s", "t", "r", ",", " ", "i", "n", "t", "]">>,
     <<"L", "i", "s", "t", "[", "b", "o", "o", "l", "]">>,
     <<"T", "e", "x", "t">>}

ValueFunctions ==
    {Decl("FunctionDef", s_divide, "text", <<Param(nm, an)>>, <<>>, 1) :
        nm \in ValueNames, an \in ValueAnnotations}

ValueInit ==
    /\ gen_node \in ValueFunctions
    /\ gen_tests = <<>>
    /\ gen_pc = "call"

InitValue == ValueInit /\ IdleReview /\ IdleAst /\ IdleTg /\ IdlePair

\* one call of generate_test_cases, one parameter
SpecValue == InitValue /\ [][NextGen]_vars

(***************************************************************************)
(* TestGenerator.generate_tests: the text it returns, as its lines.        *)
(***************************************************************************)
s_underscore == <<"_">>
s_Test == <<"T", "e", "s", "t">>

\* lines 131-138
Header(module_name) ==
    <<[ind |-> 0, t |-> "import_pytest"],
      [ind |-> 0, t |-> "from_import_star", module |-> module_name],
      BlankLine,
      [ind |-> 0, t |-> "comment"],
      [ind |-> 0, t |-> "comment"],
      BlankLine>>

\* the top-level (or class-level) def statements whose name has no leading '_'
PublicFunctions(nodes) ==
    SelectSeq(nodes, LAMBDA n : /\ n.type = "FunctionDef"
                                /\ ~StartsWith(n.name, s_underscore))

\* line 157: "    " + line if line.strip() else line
IndentLine(line) ==
    IF line.t # "blank" THEN [line EXCEPT !.ind = @ + 1] ELSE line

\* the lines of analyze_function + generate_test_cases for each of `funcs`
CasesOf(funcs) ==
    Flatten([i \in DOMAIN funcs |->
                Flatten(generate_test_cases(analyze_function(funcs[i])))])

\* lines 147-157, for one class
ClassLines(cls) ==
    LET methods == PublicFunctions(cls.body)
        cases == CasesOf(methods)
    IN  <<BlankLine, BlankLine,
          [ind |-> 0, t |-> "class", name |-> s_Test \o cls.name],
          [ind |-> 1, t |-> "class_docstring", name |-> cls.name]>>
        \o [i \in DOMAIN cases |-> IndentLine(cases[i])]

\* generate_tests(code, module_name) when ast.parse ends as `parsed`: the
\* lines of the returned text, or [raise |-> e]
generate_tests(c, parsed, module_name) ==
    CASE parsed.exc = "SyntaxError" ->
            <<[ind |-> 0, t |-> "comment_syntax_error"], BlankLine>>
      [] parsed.exc = "ValueError" -> [raise |-> "ValueError"]
      [] parsed.exc = "none" ->
            LET functions == PublicFunctions(parsed.tree)
                classes == SelectSeq(parsed.tree,
                                     LAMBDA n : n.type = "ClassDef")
            IN  Header(module_name)
                \o CasesOf(functions)
                \o Flatten([i \in DOMAIN classes |-> ClassLines(classes[i])])

(***************************************************************************)
(* One call of generate_tests on a source drawn from TgSources.            *)
(***************************************************************************)
s_self == <<"s", "e", "l", "f">>
s_multiply == <<"m", "u", "l", "t", "i", "p", "l", "y">>
s_helper == <<"_", "h", "e", "l", "p", "e", "r">>
s_Calculator == <<"C", "a", "l", "c", "u", "l", "a", "t", "o", "r">>
s_add == <<"a", "d", "d">>

\* sample methods: def or async def, public or private, with or without an
\* annotated parameter
Methods ==
    {Decl(t, nm, "text", ps, <<>>, 1) :
        t \in {"FunctionDef", "AsyncFunctionDef"},
        nm \in {s_multiply, s_helper},
        ps \in {<<Param(s_self, <<>>)>>,
                <<Param(s_self, <<>>), Param(s_a, s_int)>>}}

s_fetch == <<"f", "e", "t", "c", "h">>

\* what stands before the class: nothing, a public def or async def, or a
\* private function
Preludes ==
    {<<>>,
     <<Decl("FunctionDef", s_add, "text", <<Param(s_a, s_int)>>, <<>>, 1)>>,
     <<Decl("AsyncFunctionDef", s_fetch, "text", <<>>, <<>>, 1)>>,
     <<Decl("FunctionDef", s_helper, "none", <<>>, <<>>, 1)>>}

TgSources ==
    {[kind |-> "tree",
      body |-> pre \o <<Decl("ClassDef", s_Calculator, "none", <<>>, ms, 0)>>] :
        pre \in Preludes, ms \in SeqUpTo(Methods, MaxMethods) \ {<<>>}}
    \cup {[kind |-> "tree", body |-> pre] : pre \in Preludes}
    \cup {[kind |-> "unparsable", lines |-> 1], [kind |-> "nul", lines |-> 1]}

TgInit ==
    /\ tg_code \in TgSources
    /\ tg_out = <<>>
    /\ tg_pc = "call"

\* generate_tests returns its text
GenerateTests ==
    /\ tg_pc = "call"
    /\ \E parsed \in ast_parse(tg_code) :
          /\ parsed.exc # "ValueError"
          /\ tg_out' = generate_tests(tg_code, parsed, "calculator")
    /\ tg_pc' = "done"
    /\ UNCHANGED <<tg_code, review_vars, ast_vars, gen_vars, pair_vars>>

\* an exception leaves generate_tests
GenerateTestsRaises ==
    /\ tg_pc = "call"
    /\ \E parsed \in ast_parse(tg_code) :
          /\ parsed.exc = "ValueError"
          /\ tg_out' = <<>>
    /\ tg_pc' = "raised"
    /\ UNCHANGED <<tg_code, review_vars, ast_vars, gen_vars, pair_vars>>

InitTg == TgInit /\ IdleReview /\ IdleAst /\ IdleGen /\ IdlePair

NextTg == GenerateTests \/ GenerateTestsRaises

\* one call of generate_tests
SpecTg == InitTg /\ [][NextTg]_vars

(***************************************************************************)
(* Two call_tool requests served by one event loop (server.py, 141-226).   *)
(* A request runs from one await to the next without interruption; at an   *)
(* await the other request may run.  Each request has its own arguments    *)
(* and locals; the requests share the temporary directory.                 *)
(***************************************************************************)
\* how many file names the temporary directory has
MaxNames == 2

TempNames == 1..MaxNames

Requests == {1, 2}

\* what tmpdir holds under a name that no file has
NoFile == [kind |-> "absent"]

\* a fixed path instead of a fresh name
mkstempFixedPath(dir) == {1}

\* the names tempfile can give a new file: it is created with O_EXCL, so
\* no file of the directory has the name
mkstemp(dir) == {n \in TempNames : dir[n] = NoFile}

\* the first block at or after the i-th whose analyzer is requested
NextBlock(req_analyzers, i) ==
    IF \E j \in i..Len(Order) : Order[j] \in Range(req_analyzers)
    THEN CHOOSE j \in i..Len(Order) :
             /\ Order[j] \in Range(req_analyzers)
             /\ \A k \in i..(j - 1) : Order[k] \notin Range(req_analyzers)
    ELSE Len(Order) + 1

\* what the run of analyzer p can do; analyze_ast parses the text it is given
PairProcs(p, c) == IF p = "ast" THEN ast_parse(c) ELSE Procs(p)

\* await CodeAnalyzer.run_<p>(temp_file), or analyze_ast(code)
RunAnalyzer(p, proc, c) ==
    CASE p = "pylint" -> run_pylint(proc)
      [] p = "flake8" -> run_flake8(proc)
      [] p = "mypy" -> run_mypy(proc)
      [] p = "bandit" -> run_bandit(proc)
      [] p = "radon" -> run_radon(proc)
      [] p = "ast" -> analyze_ast(c, proc)

\* the handler of request q goes on from block i to the next await, or to
\* its return statement and through the finally clause
Proceed(q, i, dir) ==
    LET j == NextBlock(q.analyzers, i)
    IN  IF j <= Len(Order)
        THEN [req |-> [q EXCEPT !.pc = "await", !.cur = j], dir |-> dir]
        ELSE [req |-> [q EXCEPT !.pc = "done", !.cur = j,
                                !.report = [type |-> "text",
                                            text |-> [summary |-> q.summary,
                                                      analyzers |-> q.results]]],
              dir |-> [dir EXCEPT ![q.temp_file] = NoFile]]

\* the arguments of a request, and its handler's locals before it starts
NewRequest(op, c, req_analyzers, save) ==
    [op |-> op, code |-> c, analyzers |-> req_analyzers, save |-> save,
     pc |-> "entry", cur |-> 1, results |-> <<>>, summary |-> ZeroSummary,
     temp_file |-> 0, report |-> NoReport, raised |-> NoException,
     seen |-> <<>>]

PairCodes ==
    {[kind |-> "empty"], [kind |-> "nul", lines |-> 1],
     [kind |-> "unencodable", lines |-> 1], SrcDocumented, SrcUndocumented}

PairLists ==
    {<<>>, <<"pylint">>, <<"ast", "flake8">>, <<"mypy">>, <<"bandit">>,
     <<"radon">>}

PairInputs ==
    {NewRequest("code_review", c, l, FALSE) : c \in PairCodes, l \in PairLists}
    \cup {NewRequest("generate_tests", c, <<>>, sv) :
             c \in {[kind |-> "empty"], [kind |-> "nul", lines |-> 1],
                    SrcUndocumented},
             sv \in BOOLEAN}

PairInit ==
    /\ reqs \in [Requests -> PairInputs]
    /\ tmpdir = [n \in TempNames |-> NoFile]

\* code_review, lines 146-166 and on to the first await
PairStartReview(r) ==
    LET q == reqs[r]
    IN  /\ q.op = "code_review" /\ q.pc = "entry"
        /\ CASE q.code.kind = "empty" ->
                   /\ reqs' = [reqs EXCEPT ![r] =
                         [q EXCEPT !.pc = "done",
                                   !.report = [type |-> "text",
                                               text |-> [message |-> "Error: No code provided"]]]]
                   /\ UNCHANGED tmpdir
             [] q.code.kind = "unencodable" ->
                   \E name \in mkstemp(tmpdir) :
                      /\ tmpdir' = [tmpdir EXCEPT ![name] = [kind |-> "partial"]]
                      /\ reqs' = [reqs EXCEPT ![r] =
                            [q EXCEPT !.pc = "done", !.temp_file = name,
                                      !.raised = "UnicodeEncodeError"]]
             [] OTHER ->
                   \E name \in mkstemp(tmpdir) :
                      LET next == Proceed([q EXCEPT !.temp_file = name], 1,
                                          [tmpdir EXCEPT ![name] = q.code])
                      IN  /\ reqs' = [reqs EXCEPT ![r] = next.req]
                          /\ tmpdir' = next.dir
        /\ UNCHANGED <<review_vars, ast_vars, gen_vars, tg_vars>>

\* code_review, lines 168-199: the awaited analyzer ends; its subprocess
\* has read the file named temp_file, analyze_ast the text itself
PairFinishAnalyzer(r) ==
    LET q == reqs[r]
        p == Order[q.cur]
    IN  /\ q.op = "code_review" /\ q.pc = "await"
        /\ \E proc \in PairProcs(p, q.code) :
              LET src == IF p = "ast" THEN q.code ELSE tmpdir[q.temp_file]
                  entry == RunAnalyzer(p, proc, q.code)
                  q1 == [q EXCEPT !.seen = Append(@, [key |-> p, proc |-> proc,
                                                        src |-> src])]
              IN  IF "raise" \in DOMAIN entry
                  THEN /\ reqs' = [reqs EXCEPT ![r] =
                             [q1 EXCEPT !.pc = "done", !.raised = entry.raise]]
                       /\ tmpdir' = [tmpdir EXCEPT ![q.temp_file] = NoFile]
                  ELSE LET next ==
                             Proceed([q1 EXCEPT
                                        !.results = Append(@, [key |-> p,
                                                               value |-> entry]),
                                        !.summary = Tally(p, entry, @)],
                                     q.cur + 1, tmpdir)
                       IN  /\ reqs' = [reqs EXCEPT ![r] = next.req]
                           /\ tmpdir' = next.dir
        /\ UNCHANGED <<review_vars, ast_vars, gen_vars, tg_vars>>

\* generate_tests, lines 201-226: there is no await in it
PairGenerateTests(r) ==
    LET q == reqs[r]
    IN  /\ q.op = "generate_tests" /\ q.pc = "entry"
        /\ IF q.code.kind = "empty"
           THEN /\ reqs' = [reqs EXCEPT ![r] =
                      [q EXCEPT !.pc = "done",
                                !.report = [type |-> "text",
                                            text |-> [message |-> "Error: No code provided"]]]]
                /\ UNCHANGED tmpdir
           ELSE \E parsed \in ast_parse(q.code) :
                   LET test_code == generate_tests(q.code, parsed, "module")
                       result == [test_code |-> test_code,
                                  lines |-> Len(test_code), saved |-> FALSE]
                   IN  CASE parsed.exc = "ValueError" ->
                              /\ reqs' = [reqs EXCEPT ![r] =
                                    [q EXCEPT !.pc = "done",
                                              !.raised = "ValueError"]]
                              /\ UNCHANGED tmpdir
                         [] parsed.exc # "ValueError" /\ ~q.save ->
                              /\ reqs' = [reqs EXCEPT ![r] =
                                    [q EXCEPT !.pc = "done",
                                              !.report = [type |-> "text",
                                                          text |-> result]]]
                              /\ UNCHANGED tmpdir
                         [] parsed.exc # "ValueError" /\ q.save ->
                              \E name \in mkstemp(tmpdir) :
                                 /\ tmpdir' = [tmpdir EXCEPT ![name] =
                                                  [kind |-> "tests", of |-> q.code]]
                                 /\ reqs' = [reqs EXCEPT ![r] =
                                       [q EXCEPT
                                          !.pc = "done", !.temp_file = name,
                                          !.report =
                                             [type |-> "text",
                                              text |-> [test_code |-> test_code,
                                                        lines |-> Len(test_code),
                                                        saved |-> TRUE,
                                                        file_path |-> name]]]]
        /\ UNCHANGED <<review_vars, ast_vars, gen_vars, tg_vars>>

InitPair == PairInit /\ IdleReview /\ IdleAst /\ IdleGen /\ IdleTg

NextPair ==
    \E r \in Requests :
        \/ PairStartReview(r)
        \/ PairFinishAnalyzer(r)
        \/ PairGenerateTests(r)

\* two concurrent requests
SpecPair == InitPair /\ [][NextPair]_vars

(***************************************************************************)
(* Claims about code_review, checked under Spec.                           *)
(***************************************************************************)
\* the handler has built its report: the value of the return statement
Reported == report.type = "text" /\ "summary" \in DOMAIN report.text

External == {"pylint", "flake8", "mypy", "bandit", "radon"}

\* the count a provider's entry carries; 0 for an error record, for an
\* entry without a count and for a provider without an entry
CountOf(res, p) ==
    IF HasEntry(res, p) /\ "error" \notin DOMAIN Entry(res, p)
    THEN Get(Entry(res, p), "count", 0)
    ELSE 0

\* the number of issues the structural (ast) analysis found
StructuralCount(res) ==
    IF HasEntry(res, "ast") /\ "issues" \in DOMAIN Entry(res, "ast")
    THEN Len(Entry(res, "ast").issues)
    ELSE 0

\* C1: in every returned report, summary.total_issues is the structural
\* issue count plus the sum of `count` over the providers that returned a
\* result; errored and unrequested providers contribute 0.
C1_TotalIssues ==
    Reported =>
        LET res == report.text.analyzers
        IN  report.text.summary.total_issues =
                StructuralCount(res) + CountOf(res, "pylint")
                + CountOf(res, "flake8") + CountOf(res, "mypy")
                + CountOf(res, "bandit") + CountOf(res, "radon")

\* a report that mixes a structural result, a provider result with issues,
\* an errored provider and an unrequested one
C1_Witness ==
    /\ Reported
    /\ StructuralCount(report.text.analyzers) > 0
    /\ CountOf(report.text.analyzers, "flake8") > 0
    /\ HasEntry(report.text.analyzers, "pylint")
    /\ "error" \in DOMAIN Entry(report.text.analyzers, "pylint")
    /\ ~HasEntry(report.text.analyzers, "mypy")
    /\ report.text.summary.total_issues > 1

\* whether what the subprocess of p did is a failure of the provider: a
\* timeout, a missing executable, or output that is not in the tool's format
ProviderFailed(p, proc) ==
    CASE p \in {"pylint", "bandit"} ->
            proc.k \in {"timeout", "notfound"}
            \/ (proc.k = "out" /\ proc.fmt = "garbage")
      [] p \in {"flake8", "mypy"} ->
            proc.k \in {"timeout", "notfound"}
            \/ (proc.k = "out"
                /\ \E i \in DOMAIN proc.lines :
                      ~proc.lines[i].empty /\ proc.lines[i].colons < 3)
      [] p = "radon" ->
            proc.cc.k \in {"timeout", "notfound"}
            \/ proc.mi.k \in {"timeout", "notfound"}
            \/ (proc.cc.k = "out" /\ proc.mi.k = "out"
                /\ "garbage" \in {proc.cc.fmt, proc.mi.fmt})
      [] OTHER -> FALSE

\* C2: when a provider timed out, is not installed or produced malformed
\* output, its by-source entry is an error record and it added nothing to
\* the summary (and the handler went on: no exception left it).
C2_FailureIsErrorRecord ==
    (Len(results) > 0 /\ ProviderFailed(results[Len(results)].key, lastproc))
        => /\ "error" \in DOMAIN results[Len(results)].value
           /\ Get(results[Len(results)].value, "count", 0) = 0
           /\ raised = NoException

\* the requested analyzers the handler knows
Requested == Range(analyzers) \cap Range(Order)

\* C9: a report is returned only when every requested provider has ended
\* with a result or an error record, and it holds all of them.
C9_ReportAfterAll ==
    Reported =>
        /\ inflight = {}
        /\ \A p \in Requested :
              /\ calls[p] >= 1
              /\ HasEntry(report.text.analyzers, p)
              /\ \/ "error" \in DOMAIN Entry(report.text.analyzers, p)
                 \/ "tool" \in DOMAIN Entry(report.text.analyzers, p)
        /\ report.text.analyzers = results

\* a report returned for three providers, one of them timed out
C9_Witness ==
    /\ Reported
    /\ Cardinality(Requested) >= 3
    /\ \E p \in Requested :
          Get(Entry(report.text.analyzers, p), "error", "") = "Timeout"

\* C10: while the handler waits for a provider, every requested provider
\* has been started.
C10_AllStartedBeforeWait ==
    pc = "run" => \A p \in Requested : calls[p] >= 1

\* the entry analyzer p computes from the outcome `proc` of its own run
OwnEntry(p, proc) ==
    CASE p = "pylint" -> run_pylint(proc)
      [] p = "flake8" -> run_flake8(proc)
      [] p = "mypy" -> run_mypy(proc)
      [] p = "bandit" -> run_bandit(proc)
      [] p = "radon" -> run_radon(proc)
      [] p = "ast" ->
            analyze_ast(code, CHOOSE parsed \in ast_parse(code) :
                                  parsed.exc = proc.exc)

\* the entry of p records a failure: a timeout, a missing tool, another
\* error of the provider, or a syntax error of the structural parse
FailedEntry(res, p) == HasEntry(res, p) /\ "error" \in DOMAIN Entry(res, p)

\* every block of the chain has been passed
ChainDone == pc = "check" /\ cur = Len(Order) + 1

\* C11: the outcome of one source never changes another's.  A step that
\* ends a provider appends the entry that provider computes from its own
\* run alone and leaves the earlier entries as they are, whatever they
\* record; it raises nothing and hands over to the next block; and when the
\* chain has been passed every requested provider has run and has its
\* entry, also when others timed out, failed or met a syntax error.
C11_Independent ==
    [][/\ (pc = "run" /\ pc' = "check") =>
            /\ results' = Append(results,
                                 [key |-> Order[cur],
                                  value |-> OwnEntry(Order[cur], lastproc')])
            /\ cur' = cur + 1
            /\ raised' = NoException
       /\ ChainDone' =>
            \A p \in Requested : calls'[p] >= 1 /\ HasEntry(results', p)
      ]_vars

\* a timed-out provider and a syntax error of the structural parse, next
\* to a provider that found issues after the first and before the second
C11_Witness ==
    /\ Reported
    /\ FailedEntry(results, "pylint")
    /\ Entry(results, "pylint").error = "Timeout"
    /\ CountOf(results, "mypy") > 0
    /\ HasEntry(results, "radon") /\ ~FailedEntry(results, "radon")
    /\ FailedEntry(results, "ast")
    /\ Entry(results, "ast").error = "Syntax error"

\* the entries the by-source map holds under the name p
EntriesOf(res, p) == {i \in DOMAIN res : res[i].key = p}

\* C12: within a request each provider is invoked at most once, and never
\* without being requested; a provider whose entry records a failure or a
\* timeout has been invoked exactly once, is recorded once and is not
\* running again.
C12_InvokedAtMostOnce ==
    \A p \in Range(Order) :
        /\ calls[p] <= 1
        /\ calls[p] = 1 => p \in Requested
        /\ Cardinality(EntriesOf(results, p)) <= 1
        /\ FailedEntry(results, p) => calls[p] = 1 /\ p \notin inflight

\* a request that lists mypy twice has ended with one recorded timeout
C12_Witness ==
    /\ Reported
    /\ analyzers = <<"mypy", "mypy">>
    /\ FailedEntry(results, "mypy")
    /\ Entry(results, "mypy").error = "Timeout"
    /\ calls["mypy"] = 1

\* C13: once a request has ended, by a return or by an exception, the
\* temporary file it made for the providers does not exist any more.
C13_TempReleased == pc = "done" => ~temp_file

\* C15: the entries of the returned by-source map stand in the order in
\* which the caller listed their providers.
C15_CallerOrder ==
    Reported =>
        LET res == report.text.analyzers
        IN  \A i, j \in DOMAIN res :
                i < j => Index(analyzers, res[i].key) < Index(analyzers, res[j].key)

\* C16: in the summary of a returned report, critical counts the issues of
\* bandit and nothing else, and the counted issues of every other source
\* are under their own severity where they carry one (the structural
\* issues) and under warning otherwise.
C16_SeverityRollUp ==
    Reported =>
        LET res == report.text.analyzers
            structural == IF HasEntry(res, "ast") /\ "issues" \in DOMAIN Entry(res, "ast")
                          THEN Entry(res, "ast").issues ELSE <<>>
            OfSeverity(sev) ==
                Cardinality({i \in DOMAIN structural : structural[i].severity = sev})
        IN  /\ report.text.summary.critical = CountOf(res, "bandit")
            /\ report.text.summary.info = OfSeverity("info")
            /\ report.text.summary.warning =
                   OfSeverity("warning") + CountOf(res, "pylint")
                   + CountOf(res, "flake8") + CountOf(res, "mypy")

\* C29: a provider that was not requested is never invoked, and the
\* by-source map of a report has exactly one entry for each requested
\* provider among the six known ones and no other entry: none for a known
\* provider that was not requested, none for an unknown name.
C29_EntriesAreRequested ==
    /\ \A p \in Range(Order) \ Range(analyzers) :
          calls[p] = 0 /\ p \notin inflight
    /\ Reported =>
          LET res == report.text.analyzers
          IN  /\ \A p \in Requested :
                    Cardinality({i \in DOMAIN res : res[i].key = p}) = 1
              /\ \A i \in DOMAIN res : res[i].key \in Requested

\* a report for a request that names an unknown provider and one known
\* provider, the other five left out
C29_Witness ==
    /\ Reported
    /\ UnknownName \in Range(analyzers)
    /\ Cardinality(Requested) = 1
    /\ \A p \in Requested : HasEntry(report.text.analyzers, p)
    /\ Len(report.text.analyzers) = 1

(***************************************************************************)
(* Claims about analyze_ast, checked under SpecAst.                        *)
(***************************************************************************)
RECURSIVE AllDecls(_)
\* the def, async def and class nodes of a tree, at any depth
AllDecls(nodes) ==
    IF nodes = <<>> THEN {}
    ELSE (IF Head(nodes).type \in DeclTypes THEN {Head(nodes)} ELSE {})
         \cup AllDecls(Children(Head(nodes)))
         \cup AllDecls(Tail(nodes))

\* the tree of the analysed source
AstTree == ParseBody(ast_code.body, 1)

\* analyze_ast has returned the issues of a parsed source
AstAnalysed == ast_pc = "done" /\ "issues" \in DOMAIN ast_result

\* how many info-severity missing-documentation issues are at `line`
MissingDocAt(issues, line) ==
    Cardinality({i \in DOMAIN issues :
                    /\ issues[i].type = "missing_docstring"
                    /\ issues[i].severity = "info"
                    /\ issues[i].line = line})

\* C3: every function (def or async def) and class declaration without a
\* docstring has exactly one info-severity missing-documentation issue at
\* its declaration line, and one with a docstring has none; a class is
\* judged on its own docstring.
C3_MissingDocumentation ==
    AstAnalysed =>
        \A d \in AllDecls(AstTree) :
            /\ d.doc = "none" => MissingDocAt(ast_result.issues, d.lineno) = 1
            /\ d.doc = "text" => MissingDocAt(ast_result.issues, d.lineno) = 0

\* the source is not a text ast.parse can turn into a tree
Unparsable(c) == c.kind # "tree"

\* C17: analyze_ast never raises.  For a source that cannot be parsed it
\* returns a failure result with the error, with stats whose line count is
\* that of the text and whose function, class and import counts are 0, and
\* without an issue list; for every other source it returns issues and
\* stats.
C17_SyntaxFailureReturned ==
    /\ ast_pc # "raised"
    /\ ast_pc = "done" =>
          IF Unparsable(ast_code)
          THEN /\ "error" \in DOMAIN ast_result
               /\ "issues" \notin DOMAIN ast_result
               /\ ast_result.stats =
                      [functions |-> 0, classes |-> 0,
                       lines |-> LineCount(ast_code), imports |-> 0]
          ELSE /\ "error" \notin DOMAIN ast_result
               /\ "issues" \in DOMAIN ast_result
               /\ "stats" \in DOMAIN ast_result

\* the def and async def nodes of the analysed tree
AstFunctions ==
    {d \in AllDecls(AstTree) : d.type \in {"FunctionDef", "AsyncFunctionDef"}}

\* the issues of type `type` and warning severity at `line`
WarningsAt(type, line) ==
    SelectSeq(ast_result.issues,
              LAMBDA i : /\ i.type = type
                         /\ i.severity = "warning"
                         /\ i.line = line)

\* the number of parameters a function declares
ParamCount(d) == Len(d.args) + Len(d.kwonlyargs)

\* C24: a function has exactly one warning-severity excessive-parameters
\* issue, naming its parameter count, if its parameter count exceeds 7,
\* and none otherwise (none with exactly 7).
C24_ExcessiveParameters ==
    AstAnalysed =>
        \A d \in AstFunctions :
            LET found == WarningsAt("too_many_args", d.lineno)
            IN  IF ParamCount(d) > 7
                THEN /\ Len(found) = 1
                     /\ found[1].message[4] = ParamCount(d)
                ELSE found = <<>>

\* the number of lines the body of a function spans, from the first line
\* after its signature to its last line
BodySpan(d) == d.end_lineno - d.body_lineno + 1

\* C25: a function has exactly one warning-severity excessive-length
\* issue, carrying the measured length, if its body spans more than 50
\* lines, and none otherwise (none with exactly 50).
C25_ExcessiveLength ==
    AstAnalysed =>
        \A d \in AstFunctions :
            LET found == WarningsAt("long_function", d.lineno)
            IN  IF BodySpan(d) > 50
                THEN /\ Len(found) = 1
                     /\ found[1].message[4] = BodySpan(d)
                ELSE found = <<>>

RECURSIVE AllImports(_)
\* the import statements of a tree, at any depth
AllImports(nodes) ==
    IF nodes = <<>> THEN {}
    ELSE (IF Head(nodes).type \in {"Import", "ImportFrom"}
          THEN {Head(nodes)} ELSE {})
         \cup AllImports(Children(Head(nodes)))
         \cup AllImports(Tail(nodes))

\* the statement imports everything from a module
ImportsEverything(st) ==
    st.type = "ImportFrom" /\ \E i \in DOMAIN st.names : st.names[i] = s_star

\* the module a from-import names: the module after the dots, or the dots
\* alone for "from . import"
WrittenModule(st) ==
    IF st.module # <<>> THEN st.module
    ELSE [i \in 1..st.level |-> "."]

\* C26: every import statement that imports everything from a module has
\* exactly one warning-severity wildcard-import issue at its line, whose
\* message names that module; no other import statement has one.
C26_WildcardImport ==
    AstAnalysed =>
        \A st \in AllImports(AstTree) :
            LET found == WarningsAt("wildcard_import", st.lineno)
            IN  IF ImportsEverything(st)
                THEN /\ Len(found) = 1
                     /\ found[1].message[2] = WrittenModule(st)
                ELSE found = <<>>

\* C27: the issues come in pre-order declaration order.  A declaration
\* starts on an earlier line than the declarations nested in it and than
\* those that follow it in the source, and an issue carries the line of its
\* declaration or statement: along the issue list the lines never decrease.
C27_PreOrder ==
    AstAnalysed =>
        \A i, j \in DOMAIN ast_result.issues :
            i < j => ast_result.issues[i].line <= ast_result.issues[j].line

\* a declaration with an issue that holds a declaration with an issue and
\* is followed by a declaration with an issue
C27_Witness ==
    /\ AstAnalysed
    /\ Len(AstTree) = 2
    /\ AstTree[1].type \in DeclTypes
    /\ AstTree[1].body # <<>>
    /\ MissingDocAt(ast_result.issues, AstTree[1].lineno) = 1
    /\ MissingDocAt(ast_result.issues, AstTree[1].body[1].lineno) = 1
    /\ MissingDocAt(ast_result.issues, AstTree[2].lineno) = 1
    /\ Len(ast_result.issues) = 3

(***************************************************************************)
(* Claims about generate_test_cases, checked under SpecGen.                *)
(***************************************************************************)
\* the signature generate_test_cases was given
GenInfo == analyze_function(ParseStmt(gen_node, 1))

Generated == gen_pc = "done"

TestKind(tc) == tc[2].kind
TestName(tc) == tc[2].name
\* the arguments of the call in a basic or edgeCase test
CallArgs(tc) == tc[4].args

TestsOfKind(tests, k) == SelectSeq(tests, LAMBDA tc : TestKind(tc) = k)

\* C4: the edgeCase scenario is emitted if and only if some parameter
\* matches the integer rule, the rule that gives it the value 1 in the
\* basic scenario.
C4_EdgeIffIntegerRule ==
    Generated =>
        LET basic == CallArgs(TestsOfKind(gen_tests, "basic")[1])
        IN  (TestsOfKind(gen_tests, "edgeCase") # <<>>)
                <=> (\E i \in DOMAIN basic : basic[i] = "1")

HasIntInAnnotation(arg) ==
    \E k \in 0..(Len(arg.annotation) - 3) :
        /\ arg.annotation[k + 1] \in {"i", "I"}
        /\ arg.annotation[k + 2] \in {"n", "N"}
        /\ arg.annotation[k + 3] \in {"t", "T"}

C7_OneCheckPerError ==
    Generated =>
        LET checks == TestsOfKind(gen_tests, "exceptionCheck")
            NameFor(e) == s_test \o GenInfo.name \o s_raises \o Lower(e)
        IN  /\ \A e \in Range(GenInfo.raises) :
                  Cardinality({i \in DOMAIN checks :
                                  TestName(checks[i]) = NameFor(e)}) = 1
            /\ \A i \in DOMAIN checks :
                  \E e \in Range(GenInfo.raises) :
                      TestName(checks[i]) = NameFor(e)

\* the head identifier of a raised expression: its leading letters
HeadIdentifier(exc) ==
    LET Letter(ch) == \E k \in DOMAIN UpperChars :
                          ch = UpperChars[k] \/ ch = LowerChars[k]
        n == CHOOSE m \in 0..Len(exc) :
                 /\ \A k \in 1..m : Letter(exc[k])
                 /\ m < Len(exc) => ~Letter(exc[m + 1])
    IN  SubSeq(exc, 1, n)

RECURSIVE OwnRaiseHeads(_)
\* the head identifiers of the raise statements among the statements
\* `stmts` of a function and under their if statements, at any depth;
\* the statements of a nested definition are not the function's own
OwnRaiseHeads(stmts) ==
    IF stmts = <<>> THEN {}
    ELSE LET st == Head(stmts)
         IN  (CASE st.type = "Raise" ->
                      IF st.exc = <<>> THEN {} ELSE {HeadIdentifier(st.exc)}
                [] st.type = "If" -> OwnRaiseHeads(st.body)
                [] OTHER -> {})
             \cup OwnRaiseHeads(Tail(stmts))

\* C18: the raised-error names of a signature are exactly the head
\* identifiers of the raise statements in the function's own statements; a
\* raise inside a nested function is not among them, and a function
\* without a raise has none.
C18_OwnRaisesOnly ==
    Generated => Range(GenInfo.raises) = OwnRaiseHeads(gen_node.body)

\* C20: when the edgeCase scenario is emitted, its arguments are those of
\* the basic scenario with the value of every integer-rule parameter (one
\* that has the value 1 in the basic scenario) replaced by 0 and every other
\* value unchanged, position by position.
C20_EdgeReplacesIntegers ==
    (Generated /\ TestsOfKind(gen_tests, "edgeCase") # <<>>) =>
        LET basic == CallArgs(TestsOfKind(gen_tests, "basic")[1])
            edge == CallArgs(TestsOfKind(gen_tests, "edgeCase")[1])
        IN  /\ Len(edge) = Len(basic)
            /\ \A i \in DOMAIN basic :
                  edge[i] = IF basic[i] = "1" THEN "0" ELSE basic[i]

\* the text, in lower case, holds one of the words
HoldsAny(words, text) == \E w \in words : Contains(w, Lower(text))

\* the value of the first rule of the table that applies
FirstMatch(rules) ==
    rules[CHOOSE i \in DOMAIN rules :
             rules[i].applies /\ \A j \in 1..(i - 1) : ~rules[j].applies].value

\* the rules in the order and with the conditions the claim gives them
RulesAsStated(arg) ==
    <<[applies |-> \/ HoldsAny({s_int, s_num}, arg.annotation)
                   \/ HoldsAny({s_int, s_num}, arg.name)
                   \/ arg.name = <<"n">>,
       value |-> "1"],
      [applies |-> \/ HoldsAny({s_str, s_name, s_text}, arg.annotation)
                   \/ HoldsAny({s_str, s_name, s_text}, arg.name),
       value |-> "\"test_string\""],
      [applies |-> \/ HoldsAny({s_bool}, arg.annotation)
                   \/ StartsWith(arg.name, s_is)
                   \/ StartsWith(arg.name, s_has),
       value |-> "True"],
      [applies |-> HoldsAny({s_list}, arg.annotation), value |-> "[1, 2, 3]"],
      [applies |-> HoldsAny({s_dict}, arg.annotation),
       value |-> "{\"key\": \"value\"}"],
      [applies |-> HoldsAny({s_path, s_file}, arg.name),
       value |-> "\"/tmp/test_file\""],
      [applies |-> TRUE, value |-> "None"]>>

\* the rules with each word looked for only where the generator looks for
\* it: int, str, bool, list and dict in the annotation; num, name, text,
\* path and file in the name
RulesAmended(arg) ==
    <<[applies |-> \/ HoldsAny({s_int}, arg.annotation)
                   \/ HoldsAny({s_num}, arg.name),
       value |-> "1"],
      [applies |-> \/ HoldsAny({s_str}, arg.annotation)
                   \/ HoldsAny({s_name, s_text}, arg.name),
       value |-> "\"test_string\""],
      [applies |-> \/ HoldsAny({s_bool}, arg.annotation)
                   \/ StartsWith(arg.name, s_is)
                   \/ StartsWith(arg.name, s_has),
       value |-> "True"],
      [applies |-> HoldsAny({s_list}, arg.annotation), value |-> "[1, 2, 3]"],
      [applies |-> HoldsAny({s_dict}, arg.annotation),
       value |-> "{\"key\": \"value\"}"],
      [applies |-> HoldsAny({s_path, s_file}, arg.name),
       value |-> "\"/tmp/test_file\""],
      [applies |-> TRUE, value |-> "None"]>>

C21_TypeValidation ==
    Generated =>
        LET tv == TestsOfKind(gen_tests, "typeValidation")
            StringRule(arg) ==
                \/ HoldsAny({s_str}, arg.annotation)
                \/ HoldsAny({s_name, s_text}, arg.name)
        IN  /\ (tv # <<>>) <=>
                  (\E i \in DOMAIN GenInfo.args : GenInfo.args[i].annotation # <<>>)
            /\ tv # <<>> =>
                  /\ Len(tv) = 1
                  /\ tv[1][4].exc = <<"TypeError", "ValueError", "AttributeError">>
                  /\ WrongTypeValue(tv[1][5].args_repr) =
                        IF \E i \in DOMAIN GenInfo.args :
                              StringRule(GenInfo.args[i])
                        THEN "123"
                        ELSE "\"wrong_type\""

\* C22: the names of the scenarios emitted for one signature are pairwise
\* distinct.
C22_DistinctNames ==
    Generated =>
        \A i, j \in DOMAIN gen_tests :
            i # j => TestName(gen_tests[i]) # TestName(gen_tests[j])

\* the position of a kind in the fixed order of the kinds
KindRank(k) ==
    CASE k = "basic" -> 1
      [] k = "edgeCase" -> 2
      [] k = "exceptionCheck" -> 3
      [] k = "typeValidation" -> 4

RECURSIVE DiscoveredRaises(_)
\* the expressions of the raise statements that have one, in the order in
\* which a walk of the statements from top to bottom, each statement
\* before the statements under it, meets them
DiscoveredRaises(stmts) ==
    IF stmts = <<>> THEN <<>>
    ELSE LET st == Head(stmts)
         IN  (CASE st.type = "Raise" ->
                      IF st.exc = <<>> THEN <<>> ELSE <<st.exc>>
                [] st.type \in DeclTypes \cup {"If"} -> DiscoveredRaises(st.body)
                [] OTHER -> <<>>)
             \o DiscoveredRaises(Tail(stmts))

\* C30: the scenarios of one signature come in the order basic, edgeCase,
\* exceptionCheck, typeValidation: the first is the basic scenario, no
\* scenario of a later kind precedes one of an earlier kind, and the
\* exceptionCheck scenarios follow the order in which the raise statements
\* are met in the function.
C30_KindOrder ==
    Generated =>
        LET checks == TestsOfKind(gen_tests, "exceptionCheck")
            found == DiscoveredRaises(gen_node.body)
        IN  /\ TestKind(gen_tests[1]) = "basic"
            /\ \A i, j \in DOMAIN gen_tests :
                  i < j => KindRank(TestKind(gen_tests[i]))
                              <= KindRank(TestKind(gen_tests[j]))
            /\ Len(TestsOfKind(gen_tests, "basic")) = 1
            /\ Len(TestsOfKind(gen_tests, "edgeCase")) <= 1
            /\ Len(TestsOfKind(gen_tests, "typeValidation")) <= 1
            /\ Len(checks) = Len(found)
            /\ \A i \in DOMAIN checks :
                  /\ Len(checks[i][4].exc) = 1
                  /\ StartsWith(found[i], checks[i][4].exc[1])

\* a function with all four kinds of scenario, its two exceptionCheck
\* scenarios for different errors
C30_Witness ==
    /\ Generated
    /\ Len(gen_tests) = 5
    /\ TestKind(gen_tests[2]) = "edgeCase"
    /\ TestKind(gen_tests[3]) = "exceptionCheck"
    /\ TestKind(gen_tests[4]) = "exceptionCheck"
    /\ TestName(gen_tests[3]) # TestName(gen_tests[4])
    /\ TestKind(gen_tests[5]) = "typeValidation"

\* the text is an identifier: letters, digits and underscores, no digit
\* in front
IsIdentifier(text) ==
    LET Letter(ch) == \/ ch = "_"
                      \/ \E k \in DOMAIN UpperChars :
                            ch = UpperChars[k] \/ ch = LowerChars[k]
        Digit(ch) == ch \in {"0", "1", "2", "3", "4", "5", "6", "7", "8", "9"}
    IN  /\ text # <<>>
        /\ Letter(text[1])
        /\ \A i \in DOMAIN text : Letter(text[i]) \/ Digit(text[i])

\* C28: every emitted scenario is a well-formed function definition: the
\* name after "def" is a valid identifier, whatever the raised-error
\* expressions of the function are.
C28_ValidDefinitions ==
    Generated =>
        \A i \in DOMAIN gen_tests :
            /\ gen_tests[i][2].t = "def"
            /\ IsIdentifier(TestName(gen_tests[i]))

(***************************************************************************)
(* Claims about generate_tests, checked under SpecTg.                      *)
(***************************************************************************)
\* generate_tests has returned the tests of a parsed source
TgGenerated == tg_pc = "done" /\ tg_code.kind = "tree"

TgTree == ParseBody(tg_code.body, 1)

\* the methods of a class that are not private: def or async def statements
\* of its body whose name has no leading '_'
EligibleMethods(cls) ==
    SelectSeq(cls.body,
              LAMBDA n : /\ n.type \in {"FunctionDef", "AsyncFunctionDef"}
                         /\ ~StartsWith(n.name, s_underscore))

\* the scenarios of the eligible methods, as generate_test_cases gives them
\* for a function with the method's signature, every line one level deeper
ExpectedScenarios(cls) ==
    LET lines == Flatten([i \in DOMAIN EligibleMethods(cls) |->
                    Flatten(generate_test_cases(
                                analyze_function(EligibleMethods(cls)[i])))])
    IN  [i \in DOMAIN lines |->
            IF lines[i].t = "blank" THEN lines[i]
            ELSE [lines[i] EXCEPT !.ind = lines[i].ind + 1]]

\* C8: for every class, the output has a container named Test<ClassName>
\* that holds, indented one level, the scenarios of each method whose name
\* does not start with '_' and nothing of the private methods.  (The sample
\* sources have their class last, so the container ends the output.)
C8_ClassContainer ==
    TgGenerated =>
        \A c \in DOMAIN TgTree :
            TgTree[c].type = "ClassDef" =>
                \E k \in DOMAIN tg_out :
                    /\ tg_out[k].t = "class"
                    /\ tg_out[k].name = s_Test \o TgTree[c].name
                    /\ tg_out[k + 1].t = "class_docstring"
                    /\ SubSeq(tg_out, k + 2, Len(tg_out))
                           = ExpectedScenarios(TgTree[c])

\* C23: for every public top-level function of a parsed source (a def or
\* async def statement of the module whose name has no leading '_',
\* with or without parameters), the output holds the definition of
\* test_<name>_basic at the top level.
C23_BasicForEveryFunction ==
    TgGenerated =>
        \A c \in DOMAIN TgTree :
            (/\ TgTree[c].type \in {"FunctionDef", "AsyncFunctionDef"}
             /\ ~StartsWith(TgTree[c].name, s_underscore)) =>
                \E k \in DOMAIN tg_out :
                    /\ tg_out[k].t = "def"
                    /\ tg_out[k].ind = 0
                    /\ tg_out[k].name = s_test \o TgTree[c].name \o s_basic

(***************************************************************************)
(* Claims about concurrent requests, checked under SpecPair.               *)
(***************************************************************************)
\* the entry analyzer p makes of the outcome `proc` of its run on text c
OwnEntryOf(p, proc, c) ==
    CASE p = "pylint" -> run_pylint(proc)
      [] p = "flake8" -> run_flake8(proc)
      [] p = "mypy" -> run_mypy(proc)
      [] p = "bandit" -> run_bandit(proc)
      [] p = "radon" -> run_radon(proc)
      [] p = "ast" -> analyze_ast(c, proc)

RECURSIVE AloneReview(_, _, _, _, _)
\* the report a code_review of text c for the analyzers `wanted` returns
\* when it is the only request, its analyzers ending as `outcomes` (in the
\* order they are run); blocks from the i-th on, acc is what was gathered
AloneReview(c, wanted, outcomes, i, acc) ==
    IF i > Len(Order)
    THEN [type |-> "text",
          text |-> [summary |-> acc.summary, analyzers |-> acc.results]]
    ELSE IF Order[i] \notin Range(wanted)
    THEN AloneReview(c, wanted, outcomes, i + 1, acc)
    ELSE LET entry == OwnEntryOf(Order[i], Head(outcomes), c)
         IN  AloneReview(c, wanted, Tail(outcomes), i + 1,
                         [results |-> Append(acc.results,
                                             [key |-> Order[i], value |-> entry]),
                          summary |-> Tally(Order[i], entry, acc.summary)])

\* the report request q returns when it is the only request
AloneReport(q) ==
    IF q.code.kind = "empty"
    THEN [type |-> "text", text |-> [message |-> "Error: No code provided"]]
    ELSE IF q.op = "code_review"
    THEN AloneReview(q.code, q.analyzers,
                     [i \in DOMAIN q.seen |-> q.seen[i].proc], 1,
                     [results |-> <<>>, summary |-> ZeroSummary])
    ELSE LET parsed == CHOOSE x \in ast_parse(q.code) : x.exc # "ValueError"
             test_code == generate_tests(q.code, parsed, "module")
         IN  [type |-> "text",
              text |-> [test_code |-> test_code, lines |-> Len(test_code),
                        saved |-> q.save]]

\* the report without the name of the file the tests were saved to, which
\* is drawn anew for every file
SansPath(rep) ==
    IF "file_path" \in DOMAIN rep.text
    THEN [rep EXCEPT !.text = [f \in DOMAIN rep.text \ {"file_path"} |-> rep.text[f]]]
    ELSE rep

\* request q has made a file of the temporary directory and has not
\* unlinked it: it waits for an analyzer, or it has left the handler by the
\* failed write, or the file is the one its tests were saved to
HoldsFile(q) ==
    /\ q.temp_file \in TempNames
    /\ \/ q.pc = "await"
       \/ q.raised = "UnicodeEncodeError"
       \/ q.op = "generate_tests"

\* C14: requests share no mutable state.  In every interleaving of two
\* requests, a request that has returned has returned the report it
\* returns when run alone on its arguments and the outcomes of its own
\* analyzers; every analyzer of a request has read that request's source;
\* the file a waiting request holds has that request's source in it; and
\* two requests never hold the same file.
C14_RequestsIsolated ==
    \A r \in Requests :
        LET q == reqs[r]
        IN  /\ (q.pc = "done" /\ q.raised = NoException) =>
                  SansPath(q.report) = AloneReport(q)
            /\ \A i \in DOMAIN q.seen : q.seen[i].src = q.code
            /\ q.pc = "await" => tmpdir[q.temp_file] = q.code
            /\ \A r2 \in Requests \ {r} :
                  (HoldsFile(q) /\ HoldsFile(reqs[r2])) =>
                      q.temp_file # reqs[r2].temp_file

\* both requests have returned a report on different sources, each after
\* an analyzer with issues to count, the second having started while the
\* first was waiting
C14_Witness ==
    /\ \A r \in Requests :
          /\ reqs[r].op = "code_review"
          /\ reqs[r].pc = "done"
          /\ reqs[r].report # NoReport
          /\ reqs[r].temp_file \in TempNames
          /\ Len(reqs[r].seen) >= 1
    /\ reqs[1].code # reqs[2].code
    /\ reqs[1].temp_file # reqs[2].temp_file
    /\ reqs[1].report.text.summary.total_issues > 0
    /\ reqs[2].report.text.summary.total_issues > 0

====
